---- MODULE Spec2Model ----
(***************************************************************************)
(* Model of crossword/generator.py: the CrosswordGenerator class, its 5x5  *)
(* grid, the placement record slot_to_word, the shared used_words set and  *)
(* the recursive search smart_generation, whose call stack is explicit.    *)
(***************************************************************************)
EXTENDS Integers, Sequences, FiniteSets, TLC

VARIABLES words, grid, slot_to_word, used_words, stack, pc, retval, entry, last,
          steps

vars ==
    <<words, grid, slot_to_word, used_words, stack, pc, retval, entry, last, steps>>

----------------------------------------------------------------------------
(* Constants of the program and bounds of the model *)

GRID_SIZE == 5

\* the largest number of entries of a lexicon drawn freely from Vocabulary
MaxWords == 4

\* the most slots the specification of the placement operations alone fills
MaxPlaced == 3

Empty == ""

Blank == "_"

W(a, b, c, d, e) == <<a, b, c, d, e>>

\* words the free lexicons are drawn from
Vocabulary ==
    { W("A","A","A","A","A"), W("A","B","B","B","B"), W("B","A","A","A","A"),
      W("B","B","B","B","B"), W("C","C","C","C","C") }

\* words the lexicons of the placement operations alone are drawn from
TrackerVocabulary == { W("A","A","A","A","A"), W("A","B","B","B","B") }

----------------------------------------------------------------------------
(* Slot and the slot list *)

Slot(row, col, is_row) == [row |-> row, col |-> col, is_row |-> is_row]

create_slots ==
    [i \in 1..(2 * GRID_SIZE) |->
        IF i <= GRID_SIZE THEN Slot(i - 1, 0, TRUE)
                          ELSE Slot(0, i - GRID_SIZE - 1, FALSE)]

slots == create_slots

SlotIds == DOMAIN slots

Cells == (0..(GRID_SIZE - 1)) \X (0..(GRID_SIZE - 1))

\* Slot.positions()
positions(s) ==
    [i \in 1..GRID_SIZE |->
        << slots[s].row + (IF ~slots[s].is_row THEN i - 1 ELSE 0),
           slots[s].col + (IF slots[s].is_row THEN i - 1 ELSE 0) >>]

\* (r, c) in s.positions()
Covers(s, p) ==
    IF slots[s].is_row
    THEN p[1] = slots[s].row /\ p[2] - slots[s].col \in 0..(GRID_SIZE - 1)
    ELSE p[2] = slots[s].col /\ p[1] - slots[s].row \in 0..(GRID_SIZE - 1)

\* s.positions().index((r, c)), counted from 1
IndexOf(s, p) ==
    IF slots[s].is_row THEN p[2] - slots[s].col + 1 ELSE p[1] - slots[s].row + 1

is_filled(s, g) == \A i \in 1..GRID_SIZE : g[positions(s)[i]] # Empty

EmptyGrid == [p \in Cells |-> Empty]

NoPlacement == [s \in {} |-> <<>>]

----------------------------------------------------------------------------
(* Helpers on sequences *)

Range(f) == {f[i] : i \in DOMAIN f}

RECURSIVE SumSeq(_)
SumSeq(q) == IF q = <<>> THEN 0 ELSE Head(q) + SumSeq(Tail(q))

RECURSIVE Perms(_)
Perms(S) ==
    IF S = {} THEN {<<>>}
    ELSE UNION {{<<x>> \o p : p \in Perms(S \ {x})} : x \in S}

\* the orders random.shuffle can leave a list in
shuffle(q) == {[i \in 1..Len(q) |-> q[p[i]]] : p \in Perms(1..Len(q))}

\* list.sort(key=lambda x: x[1], reverse=True): stable, descending by score
RECURSIVE InsertDesc(_, _)
InsertDesc(q, x) ==
    IF q = <<>> THEN <<x>>
    ELSE IF Head(q)[2] >= x[2] THEN <<Head(q)>> \o InsertDesc(Tail(q), x)
    ELSE <<x>> \o q

RECURSIVE sort_desc(_)
sort_desc(q) ==
    IF q = <<>> THEN <<>>
    ELSE InsertDesc(sort_desc(SubSeq(q, 1, Len(q) - 1)), q[Len(q)])

----------------------------------------------------------------------------
(* Grid queries *)

get_slot_pattern(g, s) ==
    [i \in 1..GRID_SIZE |->
        IF g[positions(s)[i]] # Empty THEN g[positions(s)[i]] ELSE Blank]

is_valid_placement(g, word, s) ==
    \A i \in 1..GRID_SIZE :
        g[positions(s)[i]] = Empty \/ g[positions(s)[i]] = word[i]

\* the letters read along a slot
SlotWord(g, s) == [i \in 1..GRID_SIZE |-> g[positions(s)[i]]]

----------------------------------------------------------------------------
(* Pattern dictionary *)

Bit(i, j) == (i \div (2 ^ j)) % 2

\* mutant: no position is ever blanked, only the whole word is indexed
MaskPattern_KeepsLetters(word, i) == word

MaskPattern(word, i) ==
    [j \in 1..GRID_SIZE |-> IF Bit(i, j - 1) = 1 THEN word[j] ELSE Blank]

\* pattern_dict.get(pattern, []) for the dictionary build_pattern_dict builds
RECURSIVE PatternEntries(_, _, _)
PatternEntries(ws, pattern, acc) ==
    IF ws = <<>> THEN acc
    ELSE LET word == Head(ws)
             hit  == \E i \in 0..(2 ^ GRID_SIZE - 1) : MaskPattern(word, i) = pattern
         IN PatternEntries(Tail(ws), pattern,
                IF hit /\ word \notin Range(acc) THEN Append(acc, word) ELSE acc)

build_pattern_dict(ws, pattern) == PatternEntries(ws, pattern, <<>>)

----------------------------------------------------------------------------
(* Column frequencies and the first-row score *)

compute_column_frequencies(ws, i, letter) ==
    Cardinality({k \in DOMAIN ws : ws[k][i] = letter})

score_first_row_word(ws, word) ==
    SumSeq([i \in 1..GRID_SIZE |-> compute_column_frequencies(ws, i, word[i])])

----------------------------------------------------------------------------
(* Placement and removal *)

WriteWord(g, word, s) ==
    [p \in Cells |-> IF Covers(s, p) THEN word[IndexOf(s, p)] ELSE g[p]]

place_word_grid(g, word, s) == WriteWord(g, word, s)

place_word_map(m, word, s) ==
    [t \in DOMAIN m \cup {s} |-> IF t = s THEN word ELSE m[t]]

\* mutant: the crossing words are not consulted, every cell is cleared
keep_never(g, m, s, p) == FALSE

\* line 314: another slot holds a word whose letter at this cell is the cell's
keep(g, m, s, p) ==
    \E t \in SlotIds \ {s} :
        /\ Covers(t, p)
        /\ t \in DOMAIN m
        /\ m[t][IndexOf(t, p)] = g[p]

\* mutant: the slot's letters are left in the grid
remove_word_grid_leaves_letters(g, m, s) == g

remove_word_grid(g, m, s) ==
    IF s \notin DOMAIN m THEN g
    ELSE [p \in Cells |->
            IF Covers(s, p) /\ ~keep(g, m, s, p)
            THEN Empty ELSE g[p]]

remove_word_map(m, s) == [t \in DOMAIN m \ {s} |-> m[t]]

----------------------------------------------------------------------------
(* Candidate analysis and look-ahead score *)

Candidates(ws, g, used, s) ==
    SelectSeq(ws, LAMBDA w : w \notin used /\ is_valid_placement(g, w, s))

analyze_grid_candidates(ws, g, used) ==
    [s \in SlotIds |-> Candidates(ws, g, used, s)]

score_candidates(ws, g, s, candidate_word, used) ==
    LET grid_copy == WriteWord(g, candidate_word, s)
        used_words_copy == used \cup {candidate_word}
        dead == \E t \in SlotIds :
                    /\ ~(is_filled(t, grid_copy) \/ t = s)
                    /\ Candidates(ws, g, used_words_copy, t) = <<>>
        options(t) ==
            IF is_filled(t, grid_copy) THEN 0
            ELSE Len(SelectSeq(build_pattern_dict(ws, get_slot_pattern(grid_copy, t)),
                               LAMBDA w : w \notin used_words_copy))
    IN IF dead THEN -1
       ELSE SumSeq([t \in SlotIds |-> options(t)])

----------------------------------------------------------------------------
(* Lexicons the generator is constructed with *)

\* a lexicon of ten words that admits a valid filling of the grid
FillableLexicon ==
    << W("A","B","B","B","B"), W("A","A","B","A","A"), W("A","A","B","B","A"),
       W("A","A","A","A","B"), W("A","A","A","A","A"), W("A","B","B","A","A"),
       W("B","A","B","A","B"), W("A","A","A","B","B"), W("A","A","B","A","B"),
       W("A","B","A","A","A") >>

RECURSIVE SeqsUpTo(_, _)
SeqsUpTo(S, n) ==
    IF n = 0 THEN {<<>>}
    ELSE LET shorter == SeqsUpTo(S, n - 1)
         IN shorter \cup {Append(q, x) : q \in shorter, x \in S}

\* a lexicon with words enough to fill the grid, no two of which share a letter
DisjointLexicon ==
    << W("A","A","A","A","A"), W("B","B","B","B","B"), W("C","C","C","C","C"),
       W("D","D","D","D","D"), W("E","E","E","E","E"), W("F","F","F","F","F") >>

\* a lexicon with which a SEARCHING call places a word, fails below it and
\* goes on to the next word of its loop
RetryLexicon ==
    << W("B","A","B","A","A"), W("B","B","B","B","A"), W("A","A","B","A","A"),
       W("A","B","B","A","A"), W("B","B","B","B","B"), W("A","A","A","A","B"),
       W("A","A","A","B","A") >>

Lexicons ==
    SeqsUpTo(Vocabulary, MaxWords)
        \cup {FillableLexicon, DisjointLexicon, RetryLexicon}

\* the lists without repetition over TrackerVocabulary
TrackerLexicons ==
    {q \in SeqsUpTo(TrackerVocabulary, Cardinality(TrackerVocabulary)) :
        \A i, j \in DOMAIN q : q[i] = q[j] => i = j}

----------------------------------------------------------------------------
(* State of a generator and of a run of smart_generation *)

NoWord == <<>>

State(g, m, u) == [grid |-> g, slot_to_word |-> m, used_words |-> u]

\* a call of smart_generation that has placed a word or is in its loop: the
\* slot it fills, the word it has placed last, the scored words its loop has
\* still to try, the state it was entered in and the words it has placed
Frame(kind, s, word, todo, at) ==
    [kind |-> kind, slot |-> s, word |-> word, todo |-> todo, at |-> at,
     tried |-> IF word = <<>> THEN <<>> ELSE <<word>>]

Top == stack[Len(stack)]

Pop == SubSeq(stack, 1, Len(stack) - 1)

AllFilled(g) == \A s \in SlotIds : is_filled(s, g)

Falsy(v) == v \in {"False", "None"}

\* CrosswordGenerator.__init__ and the top-level call of __main__
Init ==
    /\ words \in Lexicons
    /\ grid = EmptyGrid
    /\ slot_to_word = NoPlacement
    /\ used_words = {}
    /\ stack = <<>>
    /\ pc = "call"
    /\ retval = "None"
    /\ entry = State(EmptyGrid, NoPlacement, {})
    /\ last = [op |-> "none", slot |-> 0, word |-> NoWord]
    /\ steps = 0

Here == State(grid, slot_to_word, used_words)

----------------------------------------------------------------------------
(* smart_generation: one action per region of the body *)

\* lines 210-212: every slot is filled
CallSolved ==
    /\ pc = "call"
    /\ AllFilled(grid)
    /\ pc' = "ret"
    /\ retval' = "True"
    /\ entry' = Here
    /\ UNCHANGED <<words, grid, slot_to_word, used_words, stack, last>>
    /\ steps' = steps + 1

\* lines 218-225: nothing used yet, order the first-row words by score
first_row_order(ws) ==
    sort_desc([i \in DOMAIN ws |-> <<ws[i], score_first_row_word(ws, ws[i])>>])

CallEmpty ==
    /\ pc = "call"
    /\ ~AllFilled(grid)
    /\ used_words = {}
    /\ stack' = Append(stack, Frame("EMPTY", 1, NoWord, first_row_order(words), Here))
    /\ pc' = "loop"
    /\ UNCHANGED <<words, grid, slot_to_word, used_words, retval, entry, last>>
    /\ steps' = steps + 1

second_slot == GRID_SIZE + 1

\* mutant: the branch without a second word reports success
CallOneFilledNone_ReturnsTrue ==
    /\ pc = "call"
    /\ ~AllFilled(grid)
    /\ Cardinality(used_words) = 1
    /\ Candidates(words, grid, used_words, second_slot) = <<>>
    /\ pc' = "ret"
    /\ retval' = "True"
    /\ entry' = Here
    /\ UNCHANGED <<words, grid, slot_to_word, used_words, stack, last>>
    /\ steps' = steps + 1

\* lines 236-244: one word used, no word fits the second slot
CallOneFilledNone ==
    /\ pc = "call"
    /\ ~AllFilled(grid)
    /\ Cardinality(used_words) = 1
    /\ Candidates(words, grid, used_words, second_slot) = <<>>
    /\ pc' = "ret"
    /\ retval' = "False"
    /\ entry' = Here
    /\ UNCHANGED <<words, grid, slot_to_word, used_words, stack, last>>
    /\ steps' = steps + 1

\* mutant: random.choice draws from the whole lexicon
CallOneFilled_AnyWord ==
    /\ pc = "call"
    /\ ~AllFilled(grid)
    /\ Cardinality(used_words) = 1
    /\ Candidates(words, grid, used_words, second_slot) # <<>>
    /\ \E k \in DOMAIN words :
            LET word == words[k]
            IN /\ grid' = place_word_grid(grid, word, second_slot)
               /\ slot_to_word' = place_word_map(slot_to_word, word, second_slot)
               /\ used_words' = used_words \cup {word}
               /\ stack' = Append(stack, Frame("ONE", second_slot, word, <<>>, Here))
               /\ last' = [op |-> "place", slot |-> second_slot, word |-> word]
    /\ pc' = "call"
    /\ UNCHANGED <<words, retval, entry>>
    /\ steps' = steps + 1

\* lines 236-250: one word used, place a random fitting word and recurse
CallOneFilled ==
    /\ pc = "call"
    /\ ~AllFilled(grid)
    /\ Cardinality(used_words) = 1
    /\ LET candidates == Candidates(words, grid, used_words, second_slot)
       IN \E k \in DOMAIN candidates :
            LET word == candidates[k]
            IN /\ grid' = place_word_grid(grid, word, second_slot)
               /\ slot_to_word' = place_word_map(slot_to_word, word, second_slot)
               /\ used_words' = used_words \cup {word}
               /\ stack' = Append(stack, Frame("ONE", second_slot, word, <<>>, Here))
               /\ last' = [op |-> "place", slot |-> second_slot, word |-> word]
    /\ pc' = "call"
    /\ UNCHANGED <<words, retval, entry>>
    /\ steps' = steps + 1

\* line 254: the candidates of the slots that are not filled
Unfilled(g) == {s \in SlotIds : ~is_filled(s, g)}

\* mutant: among the slots of least count the last of the list is returned
slot_to_fill_last(slot_candidates, open) ==
    CHOOSE s \in open :
        \A t \in open :
            \/ Len(slot_candidates[s]) < Len(slot_candidates[t])
            \/ Len(slot_candidates[s]) = Len(slot_candidates[t]) /\ s >= t

\* line 268: min() returns the first slot, in list order, of least count
slot_to_fill(slot_candidates, open) ==
    CHOOSE s \in open :
        \A t \in open :
            \/ Len(slot_candidates[s]) < Len(slot_candidates[t])
            \/ Len(slot_candidates[s]) = Len(slot_candidates[t]) /\ s <= t

\* mutant: the scored candidates are left in the order of the shuffle
scored_candidates_unsorted(ws, g, s, candidates, used) ==
    SelectSeq(
        [i \in DOMAIN candidates |->
            <<candidates[i], score_candidates(ws, g, s, candidates[i], used)>>],
        LAMBDA x : x[2] >= 0)

\* lines 274-281: score, drop the dead ends, sort
scored_candidates(ws, g, s, candidates, used) ==
    sort_desc(SelectSeq(
        [i \in DOMAIN candidates |->
            <<candidates[i], score_candidates(ws, g, s, candidates[i], used)>>],
        LAMBDA x : x[2] >= 0))

\* lines 252-265: some unfilled slot has no candidate
CallSearchingDead ==
    /\ pc = "call"
    /\ ~AllFilled(grid)
    /\ Cardinality(used_words) >= 2
    /\ \E s \in Unfilled(grid) :
            analyze_grid_candidates(words, grid, used_words)[s] = <<>>
    /\ pc' = "ret"
    /\ retval' = "False"
    /\ entry' = Here
    /\ UNCHANGED <<words, grid, slot_to_word, used_words, stack, last>>
    /\ steps' = steps + 1

\* mutant: score_candidates simulates on the grid and the set themselves
CallSearching_ScoresInPlace ==
    /\ pc = "call"
    /\ ~AllFilled(grid)
    /\ Cardinality(used_words) >= 2
    /\ LET slot_candidates == analyze_grid_candidates(words, grid, used_words)
           open == Unfilled(grid)
       IN /\ \A s \in open : slot_candidates[s] # <<>>
          /\ LET s == slot_to_fill(slot_candidates, open)
             IN \E candidates \in shuffle(slot_candidates[s]) :
                  /\ stack' = Append(stack,
                        Frame("SEARCH", s, NoWord,
                              scored_candidates(words, grid, s, candidates, used_words),
                              Here))
                  /\ grid' = WriteWord(grid, candidates[Len(candidates)], s)
                  /\ used_words' = used_words \cup Range(candidates)
    /\ pc' = "loop"
    /\ UNCHANGED <<words, slot_to_word, retval, entry, last>>
    /\ steps' = steps + 1

\* lines 252-281: choose the slot, shuffle, score and sort its candidates
CallSearching ==
    /\ pc = "call"
    /\ ~AllFilled(grid)
    /\ Cardinality(used_words) >= 2
    /\ LET slot_candidates == analyze_grid_candidates(words, grid, used_words)
           open == Unfilled(grid)
       IN /\ \A s \in open : slot_candidates[s] # <<>>
          /\ LET s == slot_to_fill(slot_candidates, open)
             IN \E candidates \in shuffle(slot_candidates[s]) :
                  stack' = Append(stack,
                      Frame("SEARCH", s, NoWord,
                            scored_candidates(words, grid, s, candidates, used_words),
                            Here))
    /\ pc' = "loop"
    /\ UNCHANGED <<words, grid, slot_to_word, used_words, retval, entry, last>>
    /\ steps' = steps + 1

\* mutant: the loop does not move on to its next word
LoopPlace_SameWordAgain ==
    /\ pc = "loop"
    /\ Top.todo # <<>>
    /\ LET word == Head(Top.todo)[1]
           s == Top.slot
       IN /\ grid' = place_word_grid(grid, word, s)
          /\ slot_to_word' = place_word_map(slot_to_word, word, s)
          /\ used_words' = used_words \cup {word}
          /\ stack' = Append(Pop, [Top EXCEPT !.word = word,
                                              !.tried = Append(@, word)])
          /\ last' = [op |-> "place", slot |-> s, word |-> word]
    /\ pc' = "call"
    /\ UNCHANGED <<words, retval, entry>>
    /\ steps' = steps + 1

\* lines 227-230 and 284-288: place the next word of the loop and recurse
LoopPlace ==
    /\ pc = "loop"
    /\ Top.todo # <<>>
    /\ LET word == Head(Top.todo)[1]
           s == Top.slot
       IN /\ grid' = place_word_grid(grid, word, s)
          /\ slot_to_word' = place_word_map(slot_to_word, word, s)
          /\ used_words' = used_words \cup {word}
          /\ stack' = Append(Pop, [Top EXCEPT !.word = word,
                                              !.todo = Tail(Top.todo),
                                              !.tried = Append(@, word)])
          /\ last' = [op |-> "place", slot |-> s, word |-> word]
    /\ pc' = "call"
    /\ UNCHANGED <<words, retval, entry>>
    /\ steps' = steps + 1

\* line 234 (return False) and the end of the body after line 294 (None)
LoopExhausted ==
    /\ pc = "loop"
    /\ Top.todo = <<>>
    /\ retval' = IF Top.kind = "EMPTY" THEN "False" ELSE "None"
    /\ entry' = Top.at
    /\ stack' = Pop
    /\ pc' = "ret"
    /\ UNCHANGED <<words, grid, slot_to_word, used_words, last>>
    /\ steps' = steps + 1

\* line 250: the second-slot call returns what its recursive call returned
RetOneFilled ==
    /\ pc = "ret"
    /\ stack # <<>>
    /\ Top.kind = "ONE"
    /\ entry' = Top.at
    /\ stack' = Pop
    /\ UNCHANGED <<words, grid, slot_to_word, used_words, pc, retval, last>>
    /\ steps' = steps + 1

\* lines 230-231 and 288-289: the recursive call succeeded
RetSuccess ==
    /\ pc = "ret"
    /\ stack # <<>>
    /\ Top.kind # "ONE"
    /\ ~Falsy(retval)
    /\ retval' = "True"
    /\ entry' = Top.at
    /\ stack' = Pop
    /\ UNCHANGED <<words, grid, slot_to_word, used_words, pc, last>>
    /\ steps' = steps + 1

\* lines 232-233 and 291-292: the recursive call failed, undo and go on
RetBacktrack ==
    /\ pc = "ret"
    /\ stack # <<>>
    /\ Top.kind # "ONE"
    /\ Falsy(retval)
    /\ grid' = remove_word_grid(grid, slot_to_word, Top.slot)
    /\ slot_to_word' = remove_word_map(slot_to_word, Top.slot)
    /\ used_words' = used_words \ {Top.word}
    /\ last' = [op |-> "remove", slot |-> Top.slot, word |-> Top.word]
    /\ pc' = "loop"
    /\ UNCHANGED <<words, stack, retval, entry>>
    /\ steps' = steps + 1

\* line 358: the top-level call has returned to __main__
Finish ==
    /\ pc = "ret"
    /\ stack = <<>>
    /\ pc' = "done"
    /\ UNCHANGED <<words, grid, slot_to_word, used_words, stack, retval, entry, last>>
    /\ steps' = steps + 1

Next ==
    \/ CallSolved
    \/ CallEmpty
    \/ CallOneFilledNone
    \/ CallOneFilled
    \/ CallSearchingDead
    \/ CallSearching
    \/ LoopPlace
    \/ LoopExhausted
    \/ RetOneFilled
    \/ RetSuccess
    \/ RetBacktrack
    \/ Finish

Spec == Init /\ [][Next]_vars

Success == pc = "done" /\ ~Falsy(retval)

Failure == pc = "done" /\ Falsy(retval)

TypeOK ==
    /\ pc \in {"call", "loop", "ret", "done"}
    /\ retval \in {"True", "False", "None"}
    /\ DOMAIN slot_to_word \subseteq SlotIds

----------------------------------------------------------------------------
(* The placement operations on their own: any valid place_word on a slot   *)
(* without an entry, any remove_word of a slot with an entry.              *)

InitTracker ==
    /\ words \in TrackerLexicons
    /\ grid = EmptyGrid
    /\ slot_to_word = NoPlacement
    /\ used_words = {}
    /\ stack = <<>>
    /\ pc = "tracker"
    /\ retval = "None"
    /\ entry = State(EmptyGrid, NoPlacement, {})
    /\ last = [op |-> "none", slot |-> 0, word |-> NoWord]
    /\ steps = 0

\* lines 302-306, called where is_valid_placement holds
TrackerPlace ==
    /\ pc = "tracker"
    /\ Cardinality(DOMAIN slot_to_word) < MaxPlaced
    /\ \E s \in SlotIds \ DOMAIN slot_to_word, k \in DOMAIN words :
        /\ is_valid_placement(grid, words[k], s)
        /\ grid' = place_word_grid(grid, words[k], s)
        /\ slot_to_word' = place_word_map(slot_to_word, words[k], s)
        /\ last' = [op |-> "place", slot |-> s, word |-> words[k]]
    /\ entry' = Here
    /\ UNCHANGED <<words, used_words, stack, pc, retval, steps>>

\* lines 308-318; "undo" marks the removal of the slot placed just before,
\* and entry keeps the state before that place_word only for such a removal
TrackerRemove ==
    /\ pc = "tracker"
    /\ \E s \in DOMAIN slot_to_word :
        LET undo == last.op = "place" /\ last.slot = s
            g == remove_word_grid(grid, slot_to_word, s)
            m == remove_word_map(slot_to_word, s)
        IN /\ grid' = g
           /\ slot_to_word' = m
           /\ last' = [op |-> IF undo THEN "undo" ELSE "remove",
                       slot |-> s, word |-> slot_to_word[s]]
           /\ entry' = IF undo THEN entry ELSE State(g, m, used_words)
    /\ UNCHANGED <<words, used_words, stack, pc, retval, steps>>

NextTracker == TrackerPlace \/ TrackerRemove

SpecTracker == InitTracker /\ [][NextTracker]_vars

----------------------------------------------------------------------------
(* The pattern dictionary on its own: a generator is constructed with a     *)
(* lexicon without duplicate words and its dictionary is asked one pattern. *)

\* the lists without repetition over Vocabulary, of at most MaxWords words
PatternLexicons ==
    {q \in SeqsUpTo(Vocabulary, MaxWords) :
        \A i, j \in DOMAIN q : q[i] = q[j] => i = j}

\* the patterns asked: a letter or the blank at each position
Patterns == [1..GRID_SIZE -> {"A", "B", Blank}]

InitPatternDict ==
    /\ words \in PatternLexicons
    /\ grid = EmptyGrid
    /\ slot_to_word = NoPlacement
    /\ used_words = {}
    /\ stack = <<>>
    /\ pc = "pattern_dict"
    /\ retval = <<>>
    /\ entry = State(EmptyGrid, NoPlacement, {})
    /\ last = [op |-> "none", slot |-> 0, word |-> NoWord]
    /\ steps = 0

\* pattern_dict.get(pattern, []): last.word is the pattern, retval the list
PatternGet ==
    /\ pc = "pattern_dict"
    /\ \E pattern \in Patterns :
        /\ retval' = build_pattern_dict(words, pattern)
        /\ last' = [op |-> "get", slot |-> 0, word |-> pattern]
    /\ pc' = "done"
    /\ UNCHANGED <<words, grid, slot_to_word, used_words, stack, entry, steps>>

NextPatternDict == PatternGet

SpecPatternDict == InitPatternDict /\ [][NextPatternDict]_vars

----------------------------------------------------------------------------
(* Properties *)

\* the grid agrees with the placement record
Agrees(g, m) ==
    /\ \A p \in Cells : (g[p] # Empty) <=> (\E s \in DOMAIN m : Covers(s, p))
    /\ \A s \in DOMAIN m : SlotWord(g, s) = m[s]

InLexicon(word) == word \in Range(words)

\* ten distinct lexicon words, one per slot, agreeing at every crossing
AdmitsFilling(ws) ==
    /\ Cardinality(Range(ws)) >= 2 * GRID_SIZE
    /\ \E rows \in [1..GRID_SIZE -> Range(ws)] :
        LET cols == [j \in 1..GRID_SIZE |-> [i \in 1..GRID_SIZE |-> rows[i][j]]]
            all == rows \o cols
        IN /\ \A j \in 1..GRID_SIZE : cols[j] \in Range(ws)
           /\ \A a, b \in DOMAIN all : all[a] = all[b] => a = b

\* no two distinct words of the lexicon share a letter, at any two positions
NoCrossing(ws) ==
    \A a, b \in Range(ws) :
        a # b => \A i, j \in 1..GRID_SIZE : a[j] # b[i]

\* C1: when the top-level call returns success, every cell is non-empty and
\* the letters along each of the ten slots form a word of the lexicon.
C1_SolvedGridIsValid ==
    Success =>
        /\ \A p \in Cells : grid[p] # Empty
        /\ \A s \in SlotIds : InLexicon(SlotWord(grid, s))

\* C2: in a grid returned as solved the ten slot words are pairwise distinct
\* and used_words holds as many words as there are filled slots, ten.
C2_SolvedWordsDistinct ==
    Success =>
        /\ \A s, t \in SlotIds : SlotWord(grid, s) = SlotWord(grid, t) => s = t
        /\ Cardinality(used_words) = 2 * GRID_SIZE

\* C3: for a lexicon that admits a valid filling the solver returns success
\* with row 0 and every column reading as lexicon words, whatever is drawn.
C3_FillableLexiconIsSolved ==
    (pc = "done" /\ ~( /\ ~Falsy(retval)
                       /\ InLexicon(SlotWord(grid, 1))
                       /\ \A s \in (GRID_SIZE + 1)..(2 * GRID_SIZE) :
                              InLexicon(SlotWord(grid, s)) ))
        => ~AdmitsFilling(words)

\* C4: when the top-level call reports failure the grid is empty and so are
\* slot_to_word and used_words, as before the call.
C4_FailureLeavesNothing ==
    Failure =>
        /\ grid = EmptyGrid
        /\ slot_to_word = NoPlacement
        /\ used_words = {}

C5_FailureRestores == (pc = "ret" /\ Falsy(retval)) => Here = entry

C5_SuccessMutatesNothing ==
    [][(pc = "ret" /\ ~Falsy(retval)) =>
            UNCHANGED <<grid, slot_to_word, used_words>>]_vars

\* C5: a call that returns failure leaves the grid, slot_to_word and
\* used_words as they were when it was entered, and once a recursive call
\* has returned success no caller changes them any more.
C5_FailedCallRestoresState == []C5_FailureRestores /\ C5_SuccessMutatesNothing

\* C6: from a state where the grid agrees with slot_to_word, place_word of a
\* valid word on a slot without an entry followed at once by remove_word of
\* that slot restores the grid and slot_to_word: a cell of the slot covered
\* by another placed slot keeps that slot's letter, the others are empty.
C6_PlaceThenRemoveRestores ==
    ( /\ last.op = "undo"
      /\ Agrees(entry.grid, entry.slot_to_word)
      /\ last.slot \notin DOMAIN entry.slot_to_word
      /\ is_valid_placement(entry.grid, last.word, last.slot) )
    => /\ grid = entry.grid
       /\ slot_to_word = entry.slot_to_word
       /\ \A i \in 1..GRID_SIZE :
            LET p == positions(last.slot)[i]
                others == {t \in DOMAIN slot_to_word \ {last.slot} : Covers(t, p)}
            IN IF others = {} THEN grid[p] = Empty
               ELSE \A t \in others : grid[p] = slot_to_word[t][IndexOf(t, p)]

\* a removal right after the placement, on a slot that crosses a placed slot
\* and whose word differs from the crossing word
C6_Witness ==
    /\ last.op = "undo"
    /\ Agrees(entry.grid, entry.slot_to_word)
    /\ \E t \in DOMAIN slot_to_word :
        /\ slot_to_word[t] # last.word
        /\ \E i \in 1..GRID_SIZE : Covers(t, positions(last.slot)[i])

\* C7: at every point of a run the grid agrees with the placement record:
\* a cell is non-empty exactly if a slot covering it has an entry, and the
\* cells of every slot with an entry spell its word.
C7_GridAgreesWithRecord == Agrees(grid, slot_to_word)

\* C8: with a lexicon of no word or one word the solver terminates, reports
\* failure and leaves the grid empty.
C8_SmallLexiconFails ==
    Len(words) <= 1 =>
        /\ steps <= 3 + 3 * Len(words)
        /\ (pc # "done" => ENABLED Next)
        /\ (pc = "done" => (Falsy(retval) /\ grid = EmptyGrid))

C8_Witness == Failure /\ Len(words) = 1 /\ last.op = "remove"

\* C9: with a lexicon in which no two distinct words can cross, the solver
\* reports failure.
C9_NoCrossingFails == (pc = "done" /\ NoCrossing(words)) => Falsy(retval)

C9_Witness ==
    /\ Failure
    /\ NoCrossing(words)
    /\ Cardinality(Range(words)) >= GRID_SIZE + 1

\* the word carries the pattern's letter at every position that is not blank
Matches(word, pattern) ==
    \A j \in 1..GRID_SIZE : pattern[j] = Blank \/ pattern[j] = word[j]

\* C11: for a lexicon without duplicate words the list the pattern dictionary
\* holds for a pattern contains exactly the lexicon words that carry the
\* pattern's letter at every non-blank position, each once; the all-blank
\* pattern lists every word once, an unmatched pattern lists nothing.
C11_PatternDictListsMatches ==
    last.op = "get" =>
        /\ Range(retval) = {w \in Range(words) : Matches(w, last.word)}
        /\ \A i, j \in DOMAIN retval : retval[i] = retval[j] => i = j
        /\ (\A j \in 1..GRID_SIZE : last.word[j] = Blank)
                => Len(retval) = Len(words)
        /\ (\A w \in Range(words) : ~Matches(w, last.word)) => retval = <<>>

\* a pattern with a letter and a blank that some words match and others not
C11_Witness ==
    /\ last.op = "get"
    /\ Len(retval) >= 2
    /\ Len(retval) < Len(words)
    /\ \E i, j \in 1..GRID_SIZE : last.word[i] = Blank /\ last.word[j] # Blank

\* some slot other than s, not filled once word is written into s, has no
\* unused lexicon word consistent with the letters of that simulated grid
SimulatedDeadEnd(ws, g, s, word, used) ==
    LET simulated == WriteWord(g, word, s)
    IN \E t \in SlotIds \ {s} :
        /\ ~is_filled(t, simulated)
        /\ \A k \in DOMAIN ws :
                \/ ws[k] \in used \cup {word}
                \/ ~is_valid_placement(simulated, ws[k], t)

\* a SEARCHING call has scored the candidates of its slot and placed none yet
Scored == pc = "loop" /\ Top.kind = "SEARCH" /\ Top.word = NoWord

\* C12: score_candidates returns -1 for a candidate exactly if, with the
\* candidate written into the slot and added to used_words, some other slot
\* that is not filled has no unused word consistent with the simulated grid.
C12_DeadEndTestOnSimulatedGrid ==
    Scored =>
        \A word \in Range(Candidates(words, grid, used_words, Top.slot)) :
            (score_candidates(words, grid, Top.slot, word, used_words) = -1)
                <=> SimulatedDeadEnd(words, grid, Top.slot, word, used_words)

\* C13: score_candidates only looks ahead: once a SEARCHING call has scored
\* the candidates of its slot, with -1 or with a score that is not negative,
\* the grid, slot_to_word and used_words are those the call was entered with.
C13_ScoringLeavesState ==
    Scored =>
        /\ grid = Top.at.grid
        /\ slot_to_word = Top.at.slot_to_word
        /\ used_words = Top.at.used_words

\* a call whose scoring has returned -1, with letters already in the grid
C13_Witness ==
    /\ Scored
    /\ grid # EmptyGrid
    /\ \E word \in Range(Candidates(words, grid, used_words, Top.slot)) :
            score_candidates(words, grid, Top.slot, word, used_words) = -1

\* the step is a place_word call: only LoopPlace and CallOneFilled lead to a
\* call of smart_generation, and last' names the word and the slot placed
Placing == pc' = "call"

\* C14: every place_word(w, s) of the solver is made where w is a valid
\* placement on s, s has no entry in slot_to_word and s is not filled, and
\* it changes no cell that holds a letter.
C14_PlacementsAreValid ==
    [][Placing =>
        /\ is_valid_placement(grid, last'.word, last'.slot)
        /\ last'.slot \notin DOMAIN slot_to_word
        /\ ~is_filled(last'.slot, grid)
        /\ \A p \in Cells : grid[p] # Empty => grid'[p] = grid[p]]_vars

C15_UsedWordsAreRecorded ==
    /\ used_words = Range(slot_to_word)
    /\ \A s, t \in DOMAIN slot_to_word : slot_to_word[s] = slot_to_word[t] => s = t
    /\ Cardinality(used_words) = Cardinality(DOMAIN slot_to_word)

C15_PlacedWordsAreUnused == [][Placing => last'.word \notin used_words]_vars

\* C15: at every point of a run used_words is the set of the words recorded
\* in slot_to_word, no word is recorded for two slots, used_words has as
\* many words as slot_to_word has entries, and no place_word is made with a
\* word that is in used_words.
C15_UsedWordsMatchRecord == []C15_UsedWordsAreRecorded /\ C15_PlacedWordsAreUnused

\* the number of lexicon entries, unused in state st, that the letters of
\* st.grid along slot t allow
CandidateCount(st, t) ==
    Cardinality({k \in DOMAIN words :
        /\ words[k] \notin st.used_words
        /\ \A i \in 1..GRID_SIZE :
                st.grid[positions(t)[i]] \in {Empty, words[k][i]}})

\* the slot a SEARCHING call entered in state st has to choose
FewestFirst(st, s) ==
    /\ s \in Unfilled(st.grid)
    /\ \A t \in Unfilled(st.grid) :
            \/ CandidateCount(st, s) < CandidateCount(st, t)
            \/ CandidateCount(st, s) = CandidateCount(st, t) /\ s <= t

\* a call has returned that was entered, with two words or more used, in a
\* state where a slot that is not filled had no candidate
ReturnedFromDeadEnd ==
    /\ pc = "ret"
    /\ Cardinality(entry.used_words) >= 2
    /\ \E t \in Unfilled(entry.grid) : CandidateCount(entry, t) = 0

\* C16: a SEARCHING call in which every unfilled slot has a candidate fills
\* an unfilled slot of least candidate count, the first of them in creation
\* order; a SEARCHING call in which some unfilled slot has no candidate
\* returns failure and has placed nothing.
C16_FewestCandidatesFirst ==
    /\ \A k \in DOMAIN stack :
            stack[k].kind = "SEARCH" => FewestFirst(stack[k].at, stack[k].slot)
    /\ ReturnedFromDeadEnd => (retval = "False" /\ Here = entry)

\* a SEARCHING call that chose among several slots of least count, with a
\* slot of larger count open, and has placed a word
C16_Witness ==
    /\ stack # <<>>
    /\ Top.kind = "SEARCH"
    /\ Top.word # NoWord
    /\ \E t, u \in Unfilled(Top.at.grid) :
            /\ t > Top.slot
            /\ CandidateCount(Top.at, t) = CandidateCount(Top.at, Top.slot)
            /\ CandidateCount(Top.at, u) > CandidateCount(Top.at, Top.slot)

NonIncreasing(q) == \A i, j \in DOMAIN q : i < j => q[i] >= q[j]

\* the look-ahead score, at the entry of the call of frame f, of a word
LookAhead(f, word) ==
    score_candidates(words, f.at.grid, f.slot, word, f.at.used_words)

\* the loop of the call on top of the stack has no word left to try
LoopOver == pc = "loop" /\ Top.todo = <<>>

\* C17: the words an EMPTY call has placed follow each other in
\* non-increasing column-frequency score; the words a SEARCHING call has
\* placed are candidates of its slot with a look-ahead score other than -1,
\* in non-increasing score, and when its loop is over they are all of them.
C17_TriedInScoreOrder ==
    stack # <<>> =>
        /\ Top.kind = "EMPTY" =>
                NonIncreasing([i \in DOMAIN Top.tried |->
                                score_first_row_word(words, Top.tried[i])])
        /\ Top.kind = "SEARCH" =>
                LET candidates ==
                        Range(Candidates(words, Top.at.grid, Top.at.used_words, Top.slot))
                IN /\ \A i \in DOMAIN Top.tried :
                        /\ Top.tried[i] \in candidates
                        /\ LookAhead(Top, Top.tried[i]) # -1
                   /\ NonIncreasing([i \in DOMAIN Top.tried |->
                                        LookAhead(Top, Top.tried[i])])
                   /\ LoopOver =>
                        Range(Top.tried) = {w \in candidates : LookAhead(Top, w) # -1}

\* a SEARCHING call whose loop is over after two words of different score
C17_Witness ==
    /\ stack # <<>>
    /\ Top.kind = "SEARCH"
    /\ LoopOver
    /\ Len(Top.tried) >= 2
    /\ LookAhead(Top, Top.tried[1]) > LookAhead(Top, Top.tried[2])

\* a place_word on the first Down slot follows at once the place_word of a
\* first-row word, with a word that is unused and has the letter of cell (0,0)
C18_OneSecondWord ==
    [][(Placing /\ last'.slot = second_slot) =>
        /\ last.op = "place"
        /\ last.slot = 1
        /\ last'.word \notin used_words
        /\ grid[<<0, 0>>] # Empty
        /\ last'.word[1] = grid[<<0, 0>>]]_vars

\* a call has returned that was entered with one word used, in a grid that
\* was not full, where every lexicon word was used or differed at cell (0,0)
ReturnedWithoutSecondWord ==
    /\ pc = "ret"
    /\ Cardinality(entry.used_words) = 1
    /\ ~AllFilled(entry.grid)
    /\ \A k \in DOMAIN words :
            \/ words[k] \in entry.used_words
            \/ words[k][1] # entry.grid[<<0, 0>>]

C18_NoSecondWordFails ==
    ReturnedWithoutSecondWord => (retval = "False" /\ Here = entry)

\* C18: for each first-row word at most one word is placed in the first Down
\* slot, an unused word with the letter of cell (0,0), and none after the
\* search below it has failed; where no word qualifies the call fails and
\* has placed nothing.
C18_SecondMoveIsSingleChoice == []C18_NoSecondWordFails /\ C18_OneSecondWord

\* the search below the second word has failed and the second-slot call is
\* about to return, though another word had qualified for the slot
C18_Witness ==
    /\ pc = "ret"
    /\ Falsy(retval)
    /\ stack # <<>>
    /\ Top.kind = "ONE"
    /\ Len(Candidates(words, Top.at.grid, Top.at.used_words, second_slot)) >= 2

\* the deepest the calls of smart_generation nest: each frame has its own slot
DepthBound == 2 * GRID_SIZE

\* above every value a call's position in Rank takes once it has been entered
NotEntered == 2 * Len(words) + 3

\* the progress of the run, most significant position first: whether the
\* top-level call is still to return to __main__, then for each depth of
\* the recursion how far the call at that depth is (not entered; in its
\* loop with so many words left, before or after the placement; returned)
Rank ==
    [k \in 0..(DepthBound + 1) |->
        IF k = 0 THEN (IF pc = "done" THEN 0 ELSE 1)
        ELSE IF k < Len(stack) THEN 2 * Len(stack[k].todo) + 2
        ELSE IF k = Len(stack)
             THEN 2 * Len(stack[k].todo) + (IF pc = "loop" THEN 1 ELSE 2)
        ELSE IF k = Len(stack) + 1 /\ pc \in {"ret", "done"} THEN 0
        ELSE NotEntered]

LexLess(a, b) ==
    \E k \in DOMAIN a : a[k] < b[k] /\ \A j \in DOMAIN a : j < k => a[j] = b[j]

C19_EveryStepDescends == [][LexLess(Rank', Rank)]_vars

\* the run has a next step; CallEmpty and CallSearching, which sort and
\* shuffle, are enabled exactly where their conditions on the state hold
HasNextStep ==
    \/ pc = "call" /\ ~AllFilled(grid) /\ used_words = {}
    \/ /\ pc = "call" /\ ~AllFilled(grid) /\ Cardinality(used_words) >= 2
       /\ \A s \in Unfilled(grid) : Candidates(words, grid, used_words, s) # <<>>
    \/ ENABLED ( \/ CallSolved \/ CallOneFilledNone \/ CallOneFilled
                 \/ CallSearchingDead \/ LoopPlace \/ LoopExhausted
                 \/ RetOneFilled \/ RetSuccess \/ RetBacktrack \/ Finish )

C19_BoundedAndNotStuck ==
    /\ Len(stack) <= DepthBound
    /\ \A k \in DOMAIN stack : Len(stack[k].todo) <= Len(words)
    /\ pc # "done" => HasNextStep
    /\ pc = "done" => retval \in {"True", "False"}

\* C19: whatever the lexicon and the draws, the top-level call returns True
\* or False: the calls nest no deeper than the number of slots, every step
\* of the run lowers a rank that cannot be lowered for ever, and as long as
\* the call has not returned to __main__ the run has a next step.
C19_Terminates == []C19_BoundedAndNotStuck /\ C19_EveryStepDescends

\* a run that has ended after a second-slot call failed, left its word in
\* the grid and returned to the loop over the first-row words
C19_Witness ==
    /\ pc = "done"
    /\ second_slot \in DOMAIN slot_to_word
    /\ Len(words) >= 2
    /\ steps > 3 * Len(words) + 3

====
